---- MODULE Spec2Model ----
(***************************************************************************)
(* Model of reservation_resolver/main.py: the randomized greedy resolver   *)
(* of competing room reservations.  A run builds the per-day availability  *)
(* counter, then loops: pick a random pending reservation, deduct it from  *)
(* the counter day by day, remove every pending reservation that touches a *)
(* day without free rooms, and append the picked one to the chosen list.   *)
(*                                                                         *)
(* Calendar dates are the integers 1..MaxDate (day n is 2024-01-0n), a     *)
(* timedelta of one day is +1.  A Reservation object is identified by its  *)
(* row number in the parsed input (rows[i] is its value); list operations  *)
(* that compare by == (list.remove) compare the values, as the NamedTuple  *)
(* does.  Names are not required unique: the inputs explored either name   *)
(* every row differently or give every row the same name, so that two rows *)
(* with the same dates are equal values.                                   *)
(***************************************************************************)
EXTENDS Integers, Sequences, FiniteSets, TLC

\* Bounds of the explored inputs.
MaxDate == 4
MaxRes == 3

\* main.py:15.  A run is explored for every capacity 1..ROOMS.
ROOMS == 2

Dates == 1..MaxDate
NameList == <<"Alice", "Bob", "Carol", "Dave", "Erin", "Frank">>
Names == {NameList[i] : i \in DOMAIN NameList}

\* main.py:10-12: the Reservation value; the loader yields start < end.
Reservation == {r \in [start : Dates, end : Dates, name : Names] : r.start < r.end}

VARIABLES
    rows,           \* the list read_reservations returned, never mutated
    rooms,          \* the configured number of rooms of this run
    requests,       \* the pending list `requests` (row numbers, in list order)
    availablility,  \* the Counter of free rooms per day (sic, main.py:154)
    chosen,         \* the list `chosen`
    picked,         \* the local `picked` of the loop body (0: unset)
    pc,             \* position of the main block
    cursor,         \* how many days of date_range update_availability consumed
    removed,        \* rows removed by remove_conflicting so far (log, line 88)
    iterations,     \* number of loop bodies entered
    error           \* the exception that ended the run, or "none"

vars == <<rows, rooms, requests, availablility, chosen, picked, pc, cursor,
          removed, iterations, error>>

Range(s) == {s[i] : i \in DOMAIN s}

Min(S) == CHOOSE x \in S : \A y \in S : x <= y
Max(S) == CHOOSE x \in S : \A y \in S : x >= y

(***************************************************************************)
(* date_range: the generator, unrolled into the sequence it yields.        *)
(***************************************************************************)
RECURSIVE date_range_from(_, _)
date_range_from(current, end) ==
    IF current < end
    THEN <<current>> \o date_range_from(current + 1, end)
    ELSE <<>>

\* Variant: the first date yielded is the day after start, the last is end.
date_range_late(start, end) == date_range_from(start + 1, end + 1)

\* Variant: the docstring's reading, the end date is yielded too.
date_range_inclusive(start, end) == date_range_from(start, end + 1)

date_range(start, end) == date_range_from(start, end)

(***************************************************************************)
(* collections.Counter: a mapping whose missing keys read as 0 (without    *)
(* being inserted) and are inserted by an assignment.                      *)
(***************************************************************************)
CounterGet(counter, key) ==
    IF key \in DOMAIN counter THEN counter[key] ELSE 0

\* Variant: the assignment is lost for a key that is already present.
CounterSet_lost(counter, key, value) ==
    [k \in (DOMAIN counter) \cup {key} |->
        IF k \in DOMAIN counter THEN counter[k] ELSE value]

CounterSet(counter, key, value) ==
    [k \in (DOMAIN counter) \cup {key} |->
        IF k = key THEN value ELSE counter[k]]

(***************************************************************************)
(* create_availability: every day of date_range(min start, max end) gets   *)
(* the number of rooms.  (min of an empty list raises: see Create.)        *)
(***************************************************************************)
\* Variant: the last day is taken from the latest start, not the latest end.
create_availability_maxstart(reservations, nrooms) ==
    LET min_date == Min({reservations[i].start : i \in DOMAIN reservations})
        max_date == Max({reservations[i].start : i \in DOMAIN reservations})
    IN  [date \in Range(date_range(min_date, max_date)) |-> nrooms]

\* Variant: one room too many per day.
create_availability_plus(reservations, nrooms) ==
    LET min_date == Min({reservations[i].start : i \in DOMAIN reservations})
        max_date == Max({reservations[i].end : i \in DOMAIN reservations})
    IN  [date \in Range(date_range(min_date, max_date)) |-> nrooms + 1]

create_availability(reservations, nrooms) ==
    LET min_date == Min({reservations[i].start : i \in DOMAIN reservations})
        max_date == Max({reservations[i].end : i \in DOMAIN reservations})
    IN  [date \in Range(date_range(min_date, max_date)) |-> nrooms]

(***************************************************************************)
(* list.remove(x): delete the first element equal to x.  Elements are row  *)
(* numbers; equality is that of the Reservation values.                    *)
(***************************************************************************)
FirstEqual(list, x) ==
    Min({j \in DOMAIN list : rows[list[j]] = rows[x]})

\* Variant: every element equal to x is dropped, not only the first.
list_remove_all(list, x) ==
    SelectSeq(list, LAMBDA y : rows[y] # rows[x])

list_remove(list, x) ==
    LET j == FirstEqual(list, x)
    IN  [k \in 1..(Len(list) - 1) |-> IF k < j THEN list[k] ELSE list[k + 1]]

(***************************************************************************)
(* remove_conflicting: the test of line 83-86 and the loop over the        *)
(* snapshot all_reservations, removing from the live list.                 *)
(***************************************************************************)
\* Variant: only the first day of the reservation is looked at.
Conflicting_first(reservation, availability) ==
    CounterGet(availability, rows[reservation].start) = 0

\* Variant: <= 1 instead of == 0, a day with one free room counts as full.
Conflicting_one(reservation, availability) ==
    \E k \in DOMAIN date_range(rows[reservation].start, rows[reservation].end) :
        CounterGet(availability,
                   date_range(rows[reservation].start, rows[reservation].end)[k]) <= 1

\* Variant: all() instead of any().
Conflicting_all(reservation, availability) ==
    \A k \in DOMAIN date_range(rows[reservation].start, rows[reservation].end) :
        CounterGet(availability,
                   date_range(rows[reservation].start, rows[reservation].end)[k]) = 0

\* Variant: < 0 instead of == 0.
Conflicting_negative(reservation, availability) ==
    \E k \in DOMAIN date_range(rows[reservation].start, rows[reservation].end) :
        CounterGet(availability,
                   date_range(rows[reservation].start, rows[reservation].end)[k]) < 0

Conflicting(reservation, availability) ==
    \E k \in DOMAIN date_range(rows[reservation].start, rows[reservation].end) :
        CounterGet(availability,
                   date_range(rows[reservation].start, rows[reservation].end)[k]) = 0

RECURSIVE remove_conflicting_loop(_, _, _, _)
remove_conflicting_loop(all_reservations, k, reservations, availability) ==
    IF k > Len(all_reservations)
    THEN [list |-> reservations, gone |-> <<>>]
    ELSE IF Conflicting(all_reservations[k], availability)
         THEN LET j == FirstEqual(reservations, all_reservations[k])
                  rest == remove_conflicting_loop(all_reservations, k + 1,
                              list_remove(reservations, all_reservations[k]),
                              availability)
              IN  [list |-> rest.list, gone |-> <<reservations[j]>> \o rest.gone]
         ELSE remove_conflicting_loop(all_reservations, k + 1, reservations,
                                      availability)

\* Variant: the loop runs over the live list instead of the snapshot, so the
\* element that follows a removed one is skipped.
RECURSIVE remove_conflicting_live_loop(_, _, _)
remove_conflicting_live_loop(k, reservations, availability) ==
    IF k > Len(reservations)
    THEN [list |-> reservations, gone |-> <<>>]
    ELSE IF Conflicting(reservations[k], availability)
         THEN LET j == FirstEqual(reservations, reservations[k])
                  rest == remove_conflicting_live_loop(k + 1,
                              list_remove(reservations, reservations[k]),
                              availability)
              IN  [list |-> rest.list, gone |-> <<reservations[j]>> \o rest.gone]
         ELSE remove_conflicting_live_loop(k + 1, reservations, availability)

remove_conflicting_live(reservations, availability) ==
    remove_conflicting_live_loop(1, reservations, availability)

\* Variant: the loop is left after the first removal.
remove_conflicting_break(reservations, availability) ==
    IF \E k \in DOMAIN reservations : Conflicting(reservations[k], availability)
    THEN LET k == Min({i \in DOMAIN reservations :
                          Conflicting(reservations[i], availability)})
             j == FirstEqual(reservations, reservations[k])
         IN  [list |-> list_remove(reservations, reservations[k]),
              gone |-> <<reservations[j]>>]
    ELSE [list |-> reservations, gone |-> <<>>]

remove_conflicting(reservations, availability) ==
    remove_conflicting_loop(reservations, 1, reservations, availability)

(***************************************************************************)
(* The run.                                                                *)
(***************************************************************************)
Stays == {stay \in Dates \X Dates : stay[1] < stay[2]}

Pools ==
    {[i \in DOMAIN stays |->
        [start |-> stays[i][1], end |-> stays[i][2],
         name |-> NameList[IF distinct THEN i ELSE 1]]] :
            stays \in UNION {[1..n -> Stays] : n \in 0..MaxRes},
            distinct \in BOOLEAN}

Init ==
    /\ rows \in Pools
    /\ rooms \in 1..ROOMS
    /\ requests = [i \in 1..Len(rows) |-> i]
    /\ availablility = <<>>
    /\ chosen = <<>>
    /\ picked = 0
    /\ pc = "create"
    /\ cursor = 0
    /\ removed = <<>>
    /\ iterations = 0
    /\ error = "none"

\* Variant: an empty input is not noticed, the counter stays empty.
CreateUnchecked ==
    /\ pc = "create"
    /\ availablility' =
          (IF Len(requests) = 0 THEN <<>> ELSE create_availability(rows, rooms))
    /\ pc' = "loop"
    /\ UNCHANGED <<rows, rooms, requests, chosen, picked, cursor, removed,
                   iterations, error>>

\* main.py:154 (create_availability, 36-47)
Create ==
    /\ pc = "create"
    /\ IF Len(requests) = 0
       THEN /\ pc' = "error"
            /\ error' = "ValueError: min() arg is an empty sequence"
            /\ UNCHANGED availablility
       ELSE /\ availablility' = create_availability(rows, rooms)
            /\ pc' = "loop"
            /\ UNCHANGED error
    /\ UNCHANGED <<rows, rooms, requests, chosen, picked, cursor, removed,
                   iterations>>

\* main.py:156-157 (pick_reservation, 61-62)
Pick ==
    /\ pc = "loop"
    /\ Len(requests) > 0
    /\ \E i \in DOMAIN requests :
          /\ picked' = requests[i]
          /\ requests' = list_remove(requests, requests[i])
    /\ iterations' = iterations + 1
    /\ cursor' = 0
    /\ pc' = "update"
    /\ UNCHANGED <<rows, rooms, availablility, chosen, removed, error>>

\* main.py:158 (update_availability, 106-109): one day of the loop
UpdateDay ==
    /\ pc = "update"
    /\ cursor < Len(date_range(rows[picked].start, rows[picked].end))
    /\ LET day == date_range(rows[picked].start, rows[picked].end)[cursor + 1]
           value == CounterGet(availablility, day) - 1
       IN  /\ availablility' = CounterSet(availablility, day, value)
           /\ IF value < 0
              THEN /\ pc' = "error"
                   /\ error' = "ValueError: goes <0"
                   /\ UNCHANGED cursor
              ELSE /\ cursor' = cursor + 1
                   /\ UNCHANGED <<pc, error>>
    /\ UNCHANGED <<rows, rooms, requests, chosen, picked, removed, iterations>>

\* main.py:106: date_range is exhausted, update_availability returns
UpdateReturn ==
    /\ pc = "update"
    /\ cursor >= Len(date_range(rows[picked].start, rows[picked].end))
    /\ pc' = "remove"
    /\ UNCHANGED <<rows, rooms, requests, availablility, chosen, picked, cursor,
                   removed, iterations, error>>

\* main.py:159 (remove_conflicting, 81-87)
Remove ==
    /\ pc = "remove"
    /\ LET result == remove_conflicting(requests, availablility)
       IN  /\ requests' = result.list
           /\ removed' = removed \o result.gone
    /\ pc' = "append"
    /\ UNCHANGED <<rows, rooms, availablility, chosen, picked, cursor,
                   iterations, error>>

\* Variant: the picked reservation is put in front.
AppendChosenFront ==
    /\ pc = "append"
    /\ chosen' = <<picked>> \o chosen
    /\ pc' = "loop"
    /\ UNCHANGED <<rows, rooms, requests, availablility, picked, cursor,
                   removed, iterations, error>>

\* main.py:160
AppendChosen ==
    /\ pc = "append"
    /\ chosen' = Append(chosen, picked)
    /\ pc' = "loop"
    /\ UNCHANGED <<rows, rooms, requests, availablility, picked, cursor,
                   removed, iterations, error>>

\* main.py:156, 161: the loop condition fails, the result is printed
Finish ==
    /\ pc = "loop"
    /\ Len(requests) = 0
    /\ pc' = "done"
    /\ UNCHANGED <<rows, rooms, requests, availablility, chosen, picked, cursor,
                   removed, iterations, error>>

Next ==
    \/ Create
    \/ Pick
    \/ UpdateDay
    \/ UpdateReturn
    \/ Remove
    \/ AppendChosen
    \/ Finish

Spec == Init /\ [][Next]_vars

\* The main block is a sequential program: it keeps running until it returns
\* or raises.
FairSpec == Spec /\ WF_vars(Next)

(***************************************************************************)
(* update_availability on its own: called with any reservation of the      *)
(* input on any counter over the built days whose values lie in 0..rooms.  *)
(***************************************************************************)
InitCommit ==
    /\ rows \in Pools
    /\ Len(rows) > 0
    /\ rooms \in 1..ROOMS
    /\ availablility \in [DOMAIN create_availability(rows, rooms) -> 0..rooms]
    /\ picked \in DOMAIN rows
    /\ requests = <<>>
    /\ chosen = <<>>
    /\ pc = "update"
    /\ cursor = 0
    /\ removed = <<>>
    /\ iterations = 0
    /\ error = "none"

NextCommit ==
    \/ UpdateDay
    \/ UpdateReturn

CommitSpec == InitCommit /\ [][NextCommit]_vars

TypeOK ==
    /\ rows \in Seq(Reservation)
    /\ Len(rows) <= MaxRes
    /\ rooms \in 1..ROOMS
    /\ pc \in {"create", "loop", "update", "remove", "append", "done", "error"}
    /\ Range(requests) \subseteq DOMAIN rows
    /\ Range(chosen) \subseteq DOMAIN rows
    /\ picked \in 0..Len(rows)

(***************************************************************************)
(* Properties.                                                             *)
(***************************************************************************)
\* The days a reservation value occupies: the half-open span [start, end).
Covers(r, d) == r.start <= d /\ d < r.end

\* How often x occurs in the list.
Count(list, x) == Cardinality({i \in DOMAIN list : list[i] = x})

\* The days consumed so far by the commit in progress.
Span(i) == date_range(rows[i].start, rows[i].end)

\* C1: capacity invariant.  In every state of a run, the states between two
\* decrements of a commit and the final state included, every tracked date
\* holds a count between 0 and the number of rooms.
CapacityInvariant ==
    \A d \in DOMAIN availablility :
        0 <= availablility[d] /\ availablility[d] <= rooms

\* A commit is half way (at least one day deducted, at least one to go) and
\* some tracked day has no room left.
CapacityWitness ==
    /\ pc = "update"
    /\ cursor >= 1
    /\ cursor < Len(Span(picked))
    /\ \E d \in DOMAIN availablility : availablility[d] = 0
    /\ \E d \in DOMAIN availablility : availablility[d] = rooms

\* C2: coverage invariant.  At every point of a run no date is contained in
\* the span of more than `rooms` entries of the chosen list.
CoverageInvariant ==
    \A d \in Dates :
        Cardinality({i \in DOMAIN chosen : Covers(rows[chosen[i]], d)}) <= rooms

\* The run is over, some date is covered by exactly `rooms` chosen entries
\* and a reservation for that date was turned down.
CoverageWitness ==
    /\ pc = "done"
    /\ \E d \in Dates :
          /\ Cardinality({i \in DOMAIN chosen : Covers(rows[chosen[i]], d)}) = rooms
          /\ \E j \in DOMAIN removed : Covers(rows[removed[j]], d)

\* C3: a commit never raises the capacity violation; the only abort of a run
\* is the empty input, and once an iteration is over the picked reservation
\* is the last element of the chosen list, one element per iteration.
CommitNeverFails ==
    /\ error # "ValueError: goes <0"
    /\ pc = "error" => Len(rows) = 0
    /\ (pc \in {"loop", "done"} /\ iterations > 0) =>
          /\ Len(chosen) = iterations
          /\ chosen[Len(chosen)] = picked

\* A reservation was committed on days that an earlier one had already
\* used, down to zero, and was appended.
CommitWitness ==
    /\ pc = "loop"
    /\ Len(chosen) >= 2
    /\ \E d \in DOMAIN availablility :
          /\ availablility[d] = 0
          /\ Covers(rows[picked], d)

\* C4: partition property, every row counted as an entry of its own.  When
\* the run is done every row occurs exactly once in chosen and removed
\* together.
PartitionByEntry ==
    pc = "done" =>
        \A i \in DOMAIN rows : Count(chosen, i) + Count(removed, i) = 1

\* C5: termination.  The loop body is entered at most Len(rows) times; a
\* pick takes exactly one element out of the pending list, no other step
\* adds one; the run cannot stop before it is done (or aborted), and every
\* step decreases the natural number StepsLeft, so the run reaches the end
\* with the pending list empty.
StepsPerIteration == MaxDate + 5

StepsLeft ==
    CASE pc = "create" -> (Len(requests) + 1) * StepsPerIteration
      [] pc = "loop"   -> Len(requests) * StepsPerIteration + 1
      [] pc = "append" -> Len(requests) * StepsPerIteration + 2
      [] pc = "remove" -> Len(requests) * StepsPerIteration + 3
      [] pc = "update" -> Len(requests) * StepsPerIteration + 4
                              + Len(Span(picked)) - cursor
      [] OTHER         -> 0

Termination ==
    /\ [](iterations + Len(requests) <= Len(rows))
    /\ [](pc = "done" => requests = <<>> /\ iterations <= Len(rows))
    /\ [](pc \notin {"done", "error"} => ENABLED Next)
    /\ [](StepsLeft >= 0)
    /\ [][StepsLeft' < StepsLeft]_vars
    /\ [][IF pc = "loop" /\ pc' = "update"
          THEN Len(requests') = Len(requests) - 1
          ELSE Len(requests') <= Len(requests)]_vars
    /\ [][Range(requests') \subseteq Range(requests)]_vars

\* A run over three rows that needed all three iterations is done.
TerminationWitness ==
    /\ pc = "done"
    /\ Len(rows) = MaxRes
    /\ iterations = Len(rows)

\* C6: the chosen list is append-only and ordered by selection.  A step
\* either leaves it alone or is the append of the iteration, which puts the
\* reservation picked in this iteration at the end, after the commit and the
\* prune pass of the iteration.
GrantedAppendOnly ==
    /\ [][\/ chosen' = chosen
          \/ /\ pc = "append"
             /\ chosen' = Append(chosen, picked)]_vars
    /\ [][(pc \in {"update", "remove", "append"}) => picked' = picked]_vars
    /\ [][(pc' = "append") => (pc \in {"remove", "append"})]_vars
    /\ [][(pc' = "remove") =>
             \/ pc = "remove"
             \/ pc = "update" /\ cursor = Len(Span(picked))]_vars
    /\ [][(pc' = "update") => (pc = "update" \/ (pc = "loop" /\ cursor' = 0))]_vars

\* Two reservations were appended, in the order they were picked.
GrantedWitness ==
    /\ pc = "loop"
    /\ Len(chosen) >= 2
    /\ chosen[Len(chosen)] = picked
    /\ chosen[1] # picked

\* C7: no revisit.  A row that was chosen or removed is not pending, and no
\* row occurs twice in the chosen list.
NoRevisit ==
    /\ \A i \in DOMAIN rows :
          (i \in Range(chosen) \/ i \in Range(removed)) => i \notin Range(requests)
    /\ \A i \in DOMAIN rows : Count(chosen, i) <= 1

\* C8: range exclusivity.  For the dates of the reservation in hand, taken
\* in either order or twice the same, date_range yields the dates from start
\* up to, not including, end in increasing order, and nothing when
\* start >= end; date_range(1, 4) is 1, 2, 3.
HalfOpen(start, end) ==
    IF start < end THEN [k \in 1..(end - start) |-> start + k - 1] ELSE <<>>

Scenario ==
    /\ rooms = 2
    /\ rows = << [start |-> 1, end |-> 3, name |-> "Alice"],
                 [start |-> 2, end |-> 4, name |-> "Bob"],
                 [start |-> 1, end |-> 2, name |-> "Carol"] >>

AfterDraws(order) ==
    /\ pc \in {"loop", "done"}
    /\ chosen = order

EndToEnd ==
    Scenario =>
        /\ AfterDraws(<<1>>) =>
              /\ availablility = (1 :> 1 @@ 2 :> 1 @@ 3 :> 2)
              /\ removed = <<>>
              /\ requests = <<2, 3>>
        /\ AfterDraws(<<1, 2>>) =>
              /\ availablility = (1 :> 1 @@ 2 :> 0 @@ 3 :> 1)
              /\ removed = <<>>
              /\ requests = <<3>>
        /\ (pc = "done" /\ Len(chosen) >= 2 /\ chosen[1] = 1 /\ chosen[2] = 2) =>
              /\ chosen = <<1, 2, 3>>
              /\ removed = <<>>
              /\ availablility = (1 :> 0 @@ 2 :> 0 @@ 3 :> 1)

EndToEndWitness ==
    /\ Scenario
    /\ pc = "done"
    /\ chosen = <<1, 2, 3>>

\* C10: forced pruning.  One room and all rows share a day: the first commit
\* takes that day to 0, the prune pass of the same iteration empties the
\* pending list, and the chosen list ends with exactly one element.
CommonDays == {d \in Dates : \A i \in DOMAIN rows : Covers(rows[i], d)}

ForcedPruning ==
    (rooms = 1 /\ Len(rows) >= 1 /\ CommonDays # {}) =>
        /\ (pc = "remove" /\ iterations = 1) =>
              \A d \in CommonDays : availablility[d] = 0
        /\ (pc = "append" /\ iterations = 1) =>
              /\ requests = <<>>
              /\ Len(removed) = Len(rows) - 1
        /\ iterations <= 1
        /\ pc = "done" => Len(chosen) = 1

\* X, Y, Z all 1..2 with one room: one is chosen, two were removed.
ForcedPruningWitness ==
    /\ rooms = 1
    /\ Len(rows) = 3
    /\ rows[1].name # rows[2].name
    /\ \A i \in DOMAIN rows : rows[i].start = 1 /\ rows[i].end = 2
    /\ pc = "done"
    /\ Len(chosen) = 1
    /\ Len(removed) = 2

\* C11: an empty input is an error of the build.  The run aborts in
\* create_availability, before anything was picked, deducted, removed or
\* appended: the chosen list is empty and no counter was built.
EmptyInputError == "ValueError: min() arg is an empty sequence"

EmptyInputAborts ==
    /\ Len(rows) = 0 =>
          /\ pc \in {"create", "error"}
          /\ pc = "error" => error = EmptyInputError
          /\ chosen = <<>>
          /\ removed = <<>>
          /\ picked = 0
          /\ iterations = 0
          /\ availablility = <<>>
    /\ error = EmptyInputError => (pc = "error" /\ Len(rows) = 0)

\* The run over the empty input has aborted.
EmptyInputWitness ==
    /\ Len(rows) = 0
    /\ pc = "error"
    /\ error = EmptyInputError

\* C12: prune is a pure filter.  The prune pass leaves exactly the pending
\* reservations that have at least one free room on every day of their
\* span, in their order; a reservation goes if and only if one of its days
\* is at 0 in the counter as the last commit left it; the counter is not
\* changed.
Feasible(reservation, availability) ==
    \A k \in DOMAIN Span(reservation) :
        CounterGet(availability, Span(reservation)[k]) >= 1

TouchesZero(reservation, availability) ==
    \E k \in DOMAIN Span(reservation) :
        CounterGet(availability, Span(reservation)[k]) = 0

PruneIsFilter ==
    [][(pc = "remove") =>
          /\ requests' = SelectSeq(requests, LAMBDA r : Feasible(r, availablility))
          /\ removed' = removed \o
                SelectSeq(requests, LAMBDA r : ~Feasible(r, availablility))
          /\ \A i \in DOMAIN requests :
                (requests[i] \notin Range(requests')) <=>
                    TouchesZero(requests[i], availablility)
          /\ availablility' = availablility]_vars

\* The first prune pass took one reservation, which came before the one it
\* left in the pending list.
PruneWitness ==
    /\ pc = "append"
    /\ iterations = 1
    /\ Len(removed) = 1
    /\ Len(requests) = 1
    /\ removed[1] < requests[1]

\* C13: a successful commit deducts exactly 1 on every day of the span, one
\* day per step in the order of the range, and leaves every other day, the
\* pending list and the chosen list as they were; it returns when the last
\* day of the span is done.
CommitDecrements ==
    [][(pc = "update" /\ pc' # "error") =>
          /\ requests' = requests
          /\ chosen' = chosen
          /\ IF pc' = "update"
             THEN /\ cursor < rows[picked].end - rows[picked].start
                  /\ cursor' = cursor + 1
                  /\ availablility' =
                        [d \in DOMAIN availablility |->
                            IF d = rows[picked].start + cursor
                            THEN availablility[d] - 1
                            ELSE availablility[d]]
             ELSE /\ pc' = "remove"
                  /\ cursor = rows[picked].end - rows[picked].start
                  /\ availablility' = availablility]_vars

\* A commit over two or more days returned; another day is tracked, a
\* reservation is pending and one was chosen before.
CommitDecrementsWitness ==
    /\ pc = "remove"
    /\ cursor >= 2
    /\ cursor = Len(Span(picked))
    /\ Len(requests) >= 1
    /\ Len(chosen) >= 1
    /\ \E d \in DOMAIN availablility : ~Covers(rows[picked], d)

\* C14: a failing commit leaves no tracked count below 0.
FailedCommitKeepsRange ==
    (pc = "error" /\ error = "ValueError: goes <0") =>
        \A d \in DOMAIN availablility : availablility[d] >= 0

\* C15: build.  On a non-empty input the counter that create_availability
\* returns tracks exactly the days from the earliest start up to, not
\* including, the latest end, each with the number of rooms.
BuiltDays ==
    {d \in Dates :
        /\ \E i \in DOMAIN rows : rows[i].start <= d
        /\ \E i \in DOMAIN rows : d < rows[i].end}

BuildDomain ==
    (pc = "loop" /\ iterations = 0) =>
        availablility = [d \in BuiltDays |-> rooms]

\* The counter was just built over three or more days, one of which no
\* reservation occupies.
BuildWitness ==
    /\ pc = "loop"
    /\ iterations = 0
    /\ Cardinality(DOMAIN availablility) >= 3
    /\ \E d \in DOMAIN availablility : \A i \in DOMAIN rows : ~Covers(rows[i], d)

\* C16: the tracked days are fixed.  Once built, the counter tracks the built
\* days and no others for the rest of the run; the days the commit in
\* progress deducts and the days a prune pass reads for the pending
\* reservations are all tracked, so no read falls back to the default zero
\* and no key is inserted.
TrackedDomainFixed ==
    (Len(rows) > 0 /\ pc # "create") =>
        /\ DOMAIN availablility = BuiltDays
        /\ pc \in {"update", "remove", "append"} =>
              Range(Span(picked)) \subseteq DOMAIN availablility
        /\ \A i \in DOMAIN requests :
              Range(Span(requests[i])) \subseteq DOMAIN availablility

\* A prune pass is about to read the counter, after a commit that deducted
\* the last tracked day, for a pending reservation that starts on the first.
TrackedDomainWitness ==
    /\ pc = "remove"
    /\ rows[picked].end - 1 = Max(DOMAIN availablility)
    /\ \E i \in DOMAIN requests : rows[requests[i]].start = Min(DOMAIN availablility)
    /\ Cardinality(DOMAIN availablility) >= 3

PruningInvariant ==
    pc \in {"loop", "append"} =>
        \A i \in DOMAIN requests :
            \A k \in DOMAIN Span(requests[i]) :
                CounterGet(availablility, Span(requests[i])[k]) >= 1

\* After an iteration some day is full, a reservation was removed and another
\* one is still pending.
PruningWitness ==
    /\ pc = "loop"
    /\ iterations >= 1
    /\ Len(requests) >= 1
    /\ Len(removed) >= 1
    /\ \E d \in DOMAIN availablility : availablility[d] = 0

\* C19: maximality.  When the run is done, every removed reservation, and
\* every row whose value was chosen less often than it occurs in the input,
\* has a day in its span where the counter is 0 and `rooms` chosen
\* reservations cover it; and a day that is at 0 stays at 0.
Granted(d) == Cardinality({i \in DOMAIN chosen : Covers(rows[chosen[i]], d)})

Blocked(reservation) ==
    \E d \in DOMAIN availablility :
        /\ Covers(rows[reservation], d)
        /\ availablility[d] = 0
        /\ Granted(d) = rooms

RowList == [k \in DOMAIN rows |-> k]

Occurrences(list, value) == Cardinality({i \in DOMAIN list : rows[list[i]] = value})

Accounting ==
    /\ [](pc \in {"loop", "done"} =>
            \A d \in DOMAIN availablility : availablility[d] = rooms - Granted(d))
    /\ [][\A d \in DOMAIN availablility :
              d \in DOMAIN availablility' /\ availablility'[d] <= availablility[d]]_vars

\* Two reservations were chosen; one day lost two rooms, another lost one.
AccountingWitness ==
    /\ pc = "loop"
    /\ Len(chosen) = 2
    /\ \E d \in DOMAIN availablility : Granted(d) = 2
    /\ \E d \in DOMAIN availablility : Granted(d) = 1
====
